---- MODULE Spec2Model ----
(***************************************************************************)
(* LZW compressor / decompressor of src/src/LZW.py.                        *)
(*                                                                         *)
(* Strings are sequences of code points (chr(c) is <<c>>, '' is <<>>),     *)
(* byte objects are sequences of 0..255, Python dicts are functions.       *)
(* One Compressor object and one Decompressor object are modelled; the     *)
(* compressed file is the variable file.  Python indices are 0-based, TLA+ *)
(* sequences 1-based: text[j] of the source is text[j+1] here.             *)
(***************************************************************************)
EXTENDS Integers, Sequences, FiniteSets, TLC

\* ---------------------------------------------------------------- sizes
\* range(256) of _initialise_code_table / _initialise_string_table
BaseSize == 256
\* self._max_code of both classes
MaxCode == 4096
\* A reduced capacity, so that a text of MaxTextLen symbols fills the table
\* and crosses the reset; _max_code is drawn from {MaxCode, ScaledMaxCode}.
ScaledMaxCode == 259
\* longest input text
MaxTextLen == 8
\* longest compressed file handed directly to the Decompressor
MaxFileLen == 5
\* longest code sequence handed directly to the bit packer
MaxCodesLen == 3

\* 'A' and 'B'
TextChars == {65, 66}
Texts == UNION {[1..n -> TextChars] : n \in 0..MaxTextLen}
\* bytes of the groups 041/042/100/101 (codes 65, 66, 256, 257), fa0 (4000)
FileBytes == {0, 4, 16, 17, 66, 250}
Files == UNION {[1..n -> FileBytes] : n \in 0..MaxFileLen}
\* 12-bit codes: the extremes, the base/learned border, mixed bit patterns
PackCodes == {0, 1, 65, 255, 256, 2730, 3855, 4095}
CodeSeqs == UNION {[1..n -> PackCodes] : n \in 0..MaxCodesLen}
MaxCodes == {MaxCode, ScaledMaxCode}

None == "None"
\* the compressed file before it is written, and with contents b
NoFile == [exists |-> FALSE, bytes |-> <<>>]
FileOf(b) == [exists |-> TRUE, bytes |-> b]
\* the local variable char of _lzw_decompress before its first assignment
Unbound == [bound |-> FALSE, val |-> <<>>]
Bound(s) == [bound |-> TRUE, val |-> s]

VARIABLES
    max_code,          \* _max_code (Compressor and Decompressor)
    \* Compressor
    text,              \* _text
    code_table,        \* _code_table
    c_next_code,       \* Compressor._next_code
    encoded_text,      \* local encoded_text, then self.encoded_text
    i,                 \* loop index of _lzw_compress
    output_word,       \* local output_word
    cpc,               \* position of the Compressor
    \* save_file / _encode_to_bytes
    twelve_bit_codes,  \* the copy that is popped from
    encoded_bytes,
    ppc,
    file,              \* contents of the compressed file
    \* Decompressor
    string_table,      \* _string_table
    d_next_code,       \* Decompressor._next_code
    pos,               \* read position in the file
    encoded_12_bits,   \* result of _twelve_bit_read
    k,                 \* index (1-based) of the code _lzw_decompress handles next
    decoded_strings,
    old_string,
    char,
    decoded_text,
    dpc,               \* position of the Decompressor
    \* history
    enc_resets,        \* resets of _code_table so far
    enc_trace,         \* per emitted code: the word bound to it, resets so far
    dec_resets,        \* resets of _string_table so far
    dec_trace          \* per resolved code: resets so far

cvars == <<text, code_table, c_next_code, encoded_text, i, output_word, cpc,
           enc_resets, enc_trace>>
pvars == <<twelve_bit_codes, encoded_bytes, ppc>>
dvars == <<string_table, d_next_code, pos, encoded_12_bits, k, decoded_strings,
           old_string, char, decoded_text, dpc, dec_resets, dec_trace>>
vars == <<max_code, cvars, pvars, file, dvars>>

\* ---------------------------------------------------------------- helpers
Min(a, b) == IF a < b THEN a ELSE b

\* dict[key] = value
Put(t, key, value) == [x \in DOMAIN t \cup {key} |-> IF x = key THEN value ELSE t[x]]

\* {chr(i): i for i in range(256)}
InitialCodeTable == [w \in {<<c>> : c \in 0..(BaseSize - 1)} |-> w[1]]

\* {i: chr(i) for i in range(256)}
InitialStringTable == [c \in 0..(BaseSize - 1) |-> <<c>>]

RECURSIVE Join(_)
\* ''.join(strings)
Join(strings) == IF strings = <<>> THEN <<>> ELSE Head(strings) \o Join(Tail(strings))

\* the key a code is bound to in a code table
WordOf(table, code) == CHOOSE w \in DOMAIN table : table[w] = code

\* ---------------------------------------------------------------- Compressor
\* _get_next_char reading text[index] instead of text[index + 1]
GetNextCharSameIndex(txt, index) == IF index < Len(txt) THEN <<txt[index + 1]>> ELSE <<>>

\* _get_next_char: text[index + 1], '' on IndexError
GetNextChar(txt, index) == IF index + 1 < Len(txt) THEN <<txt[index + 2]>> ELSE <<>>

\* the last-symbol test off by one: i == len(self._text)
IsLastSymbolOffByOne(index, txt) == index = Len(txt)

\* the test i == len(self._text) - 1 of _lzw_compress
IsLastSymbol(index, txt) == index = Len(txt) - 1

\* _add_codeword returning right after the re-initialisation, dropping word
AddCodewordDropsKey(table, next_code, word) ==
    IF next_code = max_code
    THEN [table |-> InitialCodeTable, next_code |-> BaseSize, reset |-> TRUE]
    ELSE [table |-> Put(table, word, next_code), next_code |-> next_code + 1,
          reset |-> FALSE]

\* _add_codeword: re-initialise when full, then bind word to _next_code
AddCodeword(table, next_code, word) ==
    LET full == next_code = max_code
        t0 == IF full THEN InitialCodeTable ELSE table
        n0 == IF full THEN BaseSize ELSE next_code
    IN [table |-> Put(t0, word, n0), next_code |-> n0 + 1, reset |-> full]

\* _lzw_compress up to the loop, on the empty text: self._text[0] raises
CompressEmpty ==
    /\ cpc = "start"
    /\ text = <<>>
    /\ code_table' = InitialCodeTable
    /\ c_next_code' = BaseSize
    /\ encoded_text' = <<>>
    /\ cpc' = "error"
    /\ UNCHANGED <<max_code, text, i, output_word, enc_resets, enc_trace, pvars, file, dvars>>

\* _lzw_compress up to the loop
CompressStart ==
    /\ cpc = "start"
    /\ text # <<>>
    /\ code_table' = InitialCodeTable
    /\ c_next_code' = BaseSize
    /\ encoded_text' = <<>>
    /\ i' = 0
    /\ output_word' = <<text[1]>>
    /\ cpc' = "loop"
    /\ UNCHANGED <<max_code, text, enc_resets, enc_trace, pvars, file, dvars>>

\* one iteration of the while loop of _lzw_compress
CompressStep ==
    /\ cpc = "loop"
    /\ i < Len(text)
    /\ LET next_char == GetNextChar(text, i)
           word == output_word \o next_char
       IN IF word \in DOMAIN code_table
          THEN /\ output_word' = word
               /\ IF IsLastSymbol(i, text)
                  THEN /\ encoded_text' = Append(encoded_text, code_table[word])
                       /\ enc_trace' = Append(enc_trace,
                              [word |-> WordOf(code_table, code_table[word]),
                               resets |-> enc_resets])
                  ELSE UNCHANGED <<encoded_text, enc_trace>>
               /\ UNCHANGED <<code_table, c_next_code, enc_resets>>
          ELSE LET r == AddCodeword(code_table, c_next_code, word)
               IN /\ encoded_text' = Append(encoded_text, code_table[output_word])
                  /\ enc_trace' = Append(enc_trace,
                         [word |-> WordOf(code_table, code_table[output_word]),
                          resets |-> enc_resets])
                  /\ code_table' = r.table
                  /\ c_next_code' = r.next_code
                  /\ enc_resets' = IF r.reset THEN enc_resets + 1 ELSE enc_resets
                  /\ output_word' = next_char
    /\ i' = i + 1
    /\ UNCHANGED <<max_code, text, cpc, pvars, file, dvars>>

\* the loop condition fails: return encoded_text
CompressReturn ==
    /\ cpc = "loop"
    /\ i >= Len(text)
    /\ cpc' = "done"
    /\ UNCHANGED <<max_code, text, code_table, c_next_code, encoded_text, i, output_word,
                   enc_resets, enc_trace, pvars, file, dvars>>

\* ---------------------------------------------------------------- bit packer
RECURSIVE Bits(_)
\* the binary digits of n, most significant first ('0' for 0)
Bits(n) == IF n < 2 THEN <<n>> ELSE Append(Bits(n \div 2), n % 2)

\* format(code, '012b'): zero-padded to at least 12 digits
Format012b(code) ==
    LET b == Bits(code)
    IN IF Len(b) >= 12 THEN b ELSE [j \in 1..(12 - Len(b)) |-> 0] \o b

RECURSIVE IntFromBits(_)
\* int(bit_string, 2)
IntFromBits(bits) ==
    IF bits = <<>> THEN 0 ELSE 2 * IntFromBits(SubSeq(bits, 1, Len(bits) - 1)) + bits[Len(bits)]

\* value.to_bytes(n, byteorder='big') raises OverflowError
ToBytesOverflows(value, n) == value >= 256 ^ n

\* value.to_bytes(n, byteorder='big')
ToBytes(value, n) == [j \in 1..n |-> (value \div (256 ^ (n - j))) % 256]

\* the integer _convert_to_bytes turns into 3 bytes
ConvertToInt(first_code, second_code) ==
    IntFromBits(Format012b(first_code) \o Format012b(second_code))

\* the integer _padded_convert_to_bytes turns into 2 bytes
PaddedConvertToInt(code) == IntFromBits(Format012b(code) \o <<0, 0, 0, 0>>)

\* save_file / _encode_to_bytes up to the loop
EncodeToBytesStart ==
    /\ cpc = "done"
    /\ ppc = "idle"
    /\ twelve_bit_codes' = encoded_text
    /\ encoded_bytes' = <<>>
    /\ ppc' = "loop"
    /\ UNCHANGED <<max_code, cvars, file, dvars>>

\* one iteration of the loop of _encode_to_bytes
EncodeToBytesStep ==
    /\ ppc = "loop"
    /\ twelve_bit_codes # <<>>
    /\ LET paired == Len(twelve_bit_codes) > 1
           value == IF paired
                    THEN ConvertToInt(twelve_bit_codes[1], twelve_bit_codes[2])
                    ELSE PaddedConvertToInt(twelve_bit_codes[1])
           n == IF paired THEN 3 ELSE 2
       IN /\ twelve_bit_codes' = SubSeq(twelve_bit_codes, n, Len(twelve_bit_codes))
          /\ IF ToBytesOverflows(value, n)
             THEN /\ ppc' = "error"
                  /\ UNCHANGED encoded_bytes
             ELSE /\ encoded_bytes' = encoded_bytes \o ToBytes(value, n)
                  /\ UNCHANGED ppc
    /\ UNCHANGED <<max_code, cvars, file, dvars>>

\* the loop breaks; save_file writes the bytes
WriteFile ==
    /\ ppc = "loop"
    /\ twelve_bit_codes = <<>>
    /\ file' = FileOf(encoded_bytes)
    /\ ppc' = "done"
    /\ UNCHANGED <<max_code, cvars, twelve_bit_codes, encoded_bytes, dvars>>

\* ---------------------------------------------------------------- bit unpacker
RECURSIVE IntFromBytes(_)
\* int.from_bytes(bytes, byteorder='big')
IntFromBytes(bytes) ==
    IF bytes = <<>> THEN 0
    ELSE 256 * IntFromBytes(SubSeq(bytes, 1, Len(bytes) - 1)) + bytes[Len(bytes)]

\* _process_bytes: byte_int >> 12 and byte_int & 0xfff
ProcessBytes(bytes) ==
    LET byte_int == IntFromBytes(bytes)
    IN <<byte_int \div 4096, byte_int % 4096>>

\* _process_padded_bytes keeping the 4 padding bits
ProcessPaddedBytesNoShift(bytes) == IntFromBytes(bytes)

\* _process_padded_bytes: byte_int >> 4
ProcessPaddedBytes(bytes) == IntFromBytes(bytes) \div 16

\* compressed_file.read(3) at position p
Read3(f, p) == SubSeq(f, p + 1, Min(p + 3, Len(f)))

\* _decompress_file up to the read loop
DecompressFileStart ==
    /\ dpc = "start"
    /\ file.exists
    /\ string_table' = InitialStringTable
    /\ d_next_code' = BaseSize
    /\ pos' = 0
    /\ encoded_12_bits' = <<>>
    /\ dpc' = "read"
    /\ UNCHANGED <<max_code, cvars, pvars, file, k, decoded_strings, old_string, char,
                   decoded_text, dec_resets, dec_trace>>

\* one iteration of the loop of _twelve_bit_read
TwelveBitReadStep ==
    /\ dpc = "read"
    /\ Read3(file.bytes, pos) # <<>>
    /\ LET bytes == Read3(file.bytes, pos)
       IN /\ pos' = pos + Len(bytes)
          /\ encoded_12_bits' = IF Len(bytes) = 2
                                THEN Append(encoded_12_bits, ProcessPaddedBytes(bytes))
                                ELSE encoded_12_bits \o ProcessBytes(bytes)
    /\ UNCHANGED <<max_code, cvars, pvars, file, string_table, d_next_code, k,
                   decoded_strings, old_string, char, decoded_text, dpc, dec_resets,
                   dec_trace>>

\* read returns b'': the loop breaks and the codes are returned
TwelveBitReadReturn ==
    /\ dpc = "read"
    /\ Read3(file.bytes, pos) = <<>>
    /\ dpc' = "codes"
    /\ UNCHANGED <<max_code, cvars, pvars, file, string_table, d_next_code, pos,
                   encoded_12_bits, k, decoded_strings, old_string, char, decoded_text,
                   dec_resets, dec_trace>>

\* ---------------------------------------------------------------- Decompressor
\* _add_to_string_table without the capacity test
AddToStringTableNoReset(table, next_code, string) ==
    [table |-> Put(table, next_code, string), next_code |-> next_code + 1,
     reset |-> FALSE]

\* _add_to_string_table: re-initialise when full, then bind _next_code to string
AddToStringTable(table, next_code, string) ==
    LET full == next_code = max_code
        t0 == IF full THEN InitialStringTable ELSE table
        n0 == IF full THEN BaseSize ELSE next_code
    IN [table |-> Put(t0, n0, string), next_code |-> n0 + 1, reset |-> full]

\* the string _lzw_decompress takes for a code that is not in the string table
MissingCodeString(old, ch) == old \o ch.val

\* _lzw_decompress up to the loop: the first code is looked up directly;
\* twelve_bit_codes[0] raises IndexError, the lookup KeyError
LzwDecompressStart ==
    /\ dpc = "codes"
    /\ IF encoded_12_bits = <<>> \/ encoded_12_bits[1] \notin DOMAIN string_table
       THEN /\ dpc' = "error"
            /\ UNCHANGED <<k, decoded_strings, old_string, char, dec_trace>>
       ELSE /\ old_string' = string_table[encoded_12_bits[1]]
            /\ decoded_strings' = <<string_table[encoded_12_bits[1]]>>
            /\ dec_trace' = <<dec_resets>>
            /\ char' = Unbound
            /\ k' = 2
            /\ dpc' = "decode"
    /\ UNCHANGED <<max_code, cvars, pvars, file, string_table, d_next_code, pos,
                   encoded_12_bits, decoded_text, dec_resets>>

\* one iteration of the for loop of _lzw_decompress; reading char before its
\* first assignment raises UnboundLocalError
LzwDecompressStep ==
    /\ dpc = "decode"
    /\ k <= Len(encoded_12_bits)
    /\ LET code == encoded_12_bits[k]
           missing == code \notin DOMAIN string_table
       IN IF missing /\ ~char.bound
          THEN /\ dpc' = "error"
               /\ UNCHANGED <<string_table, d_next_code, k, decoded_strings, old_string,
                              char, dec_resets, dec_trace>>
          ELSE LET current_string == IF missing THEN MissingCodeString(old_string, char)
                                                ELSE string_table[code]
                   ch == <<current_string[1]>>
                   r == AddToStringTable(string_table, d_next_code, old_string \o ch)
               IN /\ decoded_strings' = Append(decoded_strings, current_string)
                  /\ dec_trace' = Append(dec_trace, dec_resets)
                  /\ char' = Bound(ch)
                  /\ string_table' = r.table
                  /\ d_next_code' = r.next_code
                  /\ dec_resets' = IF r.reset THEN dec_resets + 1 ELSE dec_resets
                  /\ old_string' = current_string
                  /\ k' = k + 1
                  /\ UNCHANGED dpc
    /\ UNCHANGED <<max_code, cvars, pvars, file, pos, encoded_12_bits, decoded_text>>

\* the for loop is exhausted: return ''.join(decoded_strings)
LzwDecompressReturn ==
    /\ dpc = "decode"
    /\ k > Len(encoded_12_bits)
    /\ decoded_text' = Join(decoded_strings)
    /\ dpc' = "done"
    /\ UNCHANGED <<max_code, cvars, pvars, file, string_table, d_next_code, pos,
                   encoded_12_bits, k, decoded_strings, old_string, char, dec_resets,
                   dec_trace>>

\* ---------------------------------------------------------------- specifications
InitCommon ==
    /\ max_code \in MaxCodes
    /\ code_table = None
    /\ c_next_code = None
    /\ i = 0
    /\ output_word = None
    /\ twelve_bit_codes = <<>>
    /\ encoded_bytes = <<>>
    /\ string_table = None
    /\ d_next_code = None
    /\ pos = 0
    /\ encoded_12_bits = <<>>
    /\ k = 0
    /\ decoded_strings = <<>>
    /\ old_string = None
    /\ char = Unbound
    /\ decoded_text = None
    /\ dpc = "start"
    /\ enc_resets = 0
    /\ enc_trace = <<>>
    /\ dec_resets = 0
    /\ dec_trace = <<>>

\* Compressor(text).save_file(f) followed by Decompressor(f)
Init ==
    /\ InitCommon
    /\ text \in Texts
    /\ encoded_text = None
    /\ cpc = "start"
    /\ ppc = "idle"
    /\ file = NoFile

Compress == CompressEmpty \/ CompressStart \/ CompressStep \/ CompressReturn
EncodeToBytes == EncodeToBytesStart \/ EncodeToBytesStep \/ WriteFile
TwelveBitRead == DecompressFileStart \/ TwelveBitReadStep \/ TwelveBitReadReturn
LzwDecompress == LzwDecompressStart \/ LzwDecompressStep \/ LzwDecompressReturn

Next == Compress \/ EncodeToBytes \/ TwelveBitRead \/ LzwDecompress

Spec == Init /\ [][Next]_vars

\* Decompressor(f) on an arbitrary file f
InitFile ==
    /\ InitCommon
    /\ text = <<>>
    /\ encoded_text = None
    /\ cpc = "none"
    /\ ppc = "idle"
    /\ file \in {FileOf(b) : b \in Files}

NextFile == TwelveBitRead \/ LzwDecompress

SpecFile == InitFile /\ [][NextFile]_vars

\* _encode_to_bytes on an arbitrary sequence of 12-bit codes, then _twelve_bit_read
InitPack ==
    /\ InitCommon
    /\ text = <<>>
    /\ encoded_text \in CodeSeqs
    /\ cpc = "done"
    /\ ppc = "idle"
    /\ file = NoFile

NextPack == EncodeToBytes \/ TwelveBitRead

SpecPack == InitPack /\ [][NextPack]_vars

\* ---------------------------------------------------------------- properties

\* C1: round-trip identity.  For every non-empty text, compressing, saving and
\* decompressing ends without error and the decoded text is the text.
RoundTripIdentity ==
    (cpc # "none" /\ text # <<>>) =>
        /\ cpc # "error"
        /\ dpc # "error"
        /\ dpc = "done" => decoded_text = text

\* C2: table-reset synchrony.  The string table that resolves the n-th code has
\* been reset as often as the code table that emitted the n-th code, and the
\* n-th code is resolved to the word the encoder had bound it to.
TableResetSynchrony ==
    \A n \in 1..Len(dec_trace) :
        /\ dec_trace[n] = enc_trace[n].resets
        /\ decoded_strings[n] = enc_trace[n].word

\* C3: corrupt-stream detection.  A code that is neither in the string table
\* nor the next code to be assigned aborts decoding with an error, for the
\* first code of the stream and for every later one.
CorruptStreamDetected ==
    [][/\ (/\ dpc = "codes"
           /\ encoded_12_bits # <<>>
           /\ encoded_12_bits[1] \notin DOMAIN string_table) => dpc' = "error"
       /\ (/\ dpc = "decode"
           /\ k <= Len(encoded_12_bits)
           /\ encoded_12_bits[k] \notin DOMAIN string_table
           /\ encoded_12_bits[k] # d_next_code)
              => (dpc' = "error" /\ decoded_strings' = decoded_strings)]_vars

\* C4: dangling-byte detection.  A file whose length leaves a final group of
\* one byte makes the unpacker fail: it never returns a code list.
DanglingByteDetected ==
    (file.exists /\ Len(file.bytes) % 3 = 1) => dpc \notin {"codes", "decode", "done"}

\* C5: the unpacker inverts the packer.  Packing any sequence of 12-bit codes
\* succeeds and unpacking the written bytes returns exactly that sequence.
UnpackInvertsPack ==
    /\ ppc # "error"
    /\ dpc = "codes" => encoded_12_bits = encoded_text

\* C5 witness: an odd number of codes, the padded one with all 12 bits set,
\* has been packed and unpacked
UnpackedOddCodes ==
    /\ dpc = "codes"
    /\ ppc = "done"
    /\ Len(encoded_text) = 3
    /\ encoded_text[3] = 4095
    /\ Len(file.bytes) = 5

\* C6 as claimed: "AAAA" encodes to [65, 256].
EncodeAAAAClaimed ==
    (cpc = "done" /\ max_code = MaxCode /\ text = <<65, 65, 65, 65>>)
        => encoded_text = <<65, 256>>

\* C6 amended: "AAAA" encodes to [65, 256, 65]: the third 'A' extends the match
\* to "AA", the fourth misses ("AAA"), so 256 is emitted and 'A' is flushed.
EncodeAAAA ==
    (cpc = "done" /\ max_code = MaxCode /\ text = <<65, 65, 65, 65>>)
        => encoded_text = <<65, 256, 65>>

\* C6 witness: "AAAA" has been encoded with the capacity of the source
EncodedAAAA ==
    /\ cpc = "done"
    /\ max_code = MaxCode
    /\ text = <<65, 65, 65, 65>>
    /\ Len(encoded_text) = 3

\* C7: self-referential code.  A code after the first that is missing because
\* it is the next code to be assigned is decoded to old_string plus the first
\* symbol of old_string, that string is inserted, and decoding goes on.
SelfReferentialCode ==
    [][(/\ dpc = "decode"
        /\ k <= Len(encoded_12_bits)
        /\ encoded_12_bits[k] \notin DOMAIN string_table
        /\ encoded_12_bits[k] = d_next_code)
           => LET current == old_string \o <<old_string[1]>>
              IN /\ dpc' = "decode"
                 /\ decoded_strings' = Append(decoded_strings, current)
                 /\ \E c \in DOMAIN string_table' : string_table'[c] = current]_vars

\* C8 as claimed: an insert at capacity resets the dictionary to the base
\* entries with next_code 256 and drops the key; any other insert binds the key
\* to next_code and increments next_code.
InsertAtCapacityDropsKey ==
    [][/\ (cpc = "loop" /\ i < Len(text)
              /\ output_word \o GetNextChar(text, i) \notin DOMAIN code_table)
          => LET word == output_word \o GetNextChar(text, i)
             IN IF c_next_code = max_code
                THEN code_table' = InitialCodeTable /\ c_next_code' = BaseSize
                ELSE /\ code_table' = Put(code_table, word, c_next_code)
                     /\ c_next_code' = c_next_code + 1
       /\ (dpc = "decode" /\ dpc' = "decode" /\ k <= Len(encoded_12_bits))
          => LET string == old_string \o <<decoded_strings'[k][1]>>
             IN IF d_next_code = max_code
                THEN string_table' = InitialStringTable /\ d_next_code' = BaseSize
                ELSE /\ string_table' = Put(string_table, d_next_code, string)
                     /\ d_next_code' = d_next_code + 1]_vars

\* C8 amended: an insert at capacity resets the dictionary to the base entries
\* and then binds the key to code 256, leaving 257 entries and next_code 257;
\* any other insert binds the key to next_code and increments next_code.
InsertAtCapacityResetsThenBinds ==
    [][/\ (cpc = "loop" /\ i < Len(text)
              /\ output_word \o GetNextChar(text, i) \notin DOMAIN code_table)
          => LET word == output_word \o GetNextChar(text, i)
             IN IF c_next_code = max_code
                THEN /\ code_table' = Put(InitialCodeTable, word, BaseSize)
                     /\ c_next_code' = BaseSize + 1
                ELSE /\ code_table' = Put(code_table, word, c_next_code)
                     /\ c_next_code' = c_next_code + 1
       /\ (dpc = "decode" /\ dpc' = "decode" /\ k <= Len(encoded_12_bits))
          => LET string == old_string \o <<decoded_strings'[k][1]>>
             IN IF d_next_code = max_code
                THEN /\ string_table' = Put(InitialStringTable, BaseSize, string)
                     /\ d_next_code' = BaseSize + 1
                ELSE /\ string_table' = Put(string_table, d_next_code, string)
                     /\ d_next_code' = d_next_code + 1]_vars

\* C8 witness: both dictionaries have just taken an insert at capacity
InsertedAtCapacity ==
    /\ enc_resets = 1
    /\ dec_resets = 1
    /\ dpc = "decode"
    /\ d_next_code = BaseSize + 1

\* C9: dictionary size invariant.  Each dictionary holds exactly next_code
\* entries, bound to exactly the codes 0..next_code-1, with next_code between
\* 256 and the capacity; no emitted code reaches the capacity.
DictionarySizeInvariant ==
    /\ cpc \in {"loop", "done", "error"} =>
          /\ Cardinality(DOMAIN code_table) = c_next_code
          /\ {code_table[w] : w \in DOMAIN code_table} = 0..(c_next_code - 1)
          /\ BaseSize <= c_next_code
          /\ c_next_code <= max_code
          /\ \A n \in 1..Len(encoded_text) : encoded_text[n] \in 0..(max_code - 1)
    /\ dpc \in {"read", "codes", "decode", "done", "error"} =>
          /\ DOMAIN string_table = 0..(d_next_code - 1)
          /\ BaseSize <= d_next_code
          /\ d_next_code <= max_code

\* C9 witness: the code table is full again after a reset, and the string
\* table has been reset as well
TablesRefilled ==
    /\ enc_resets = 1
    /\ c_next_code = max_code
    /\ dec_resets = 1

\* C10: no symbol is dropped.  When the encoder returns, the words its emitted
\* codes were bound to at emission, concatenated in order, are the text.
NoSymbolDropped ==
    cpc = "done" =>
        /\ Len(enc_trace) = Len(encoded_text)
        /\ Join([n \in 1..Len(enc_trace) |-> enc_trace[n].word]) = text

\* C10 witness: the encoder returned after a reset on the step before the
\* last symbol, whose flush is the only code emitted after the reset
FlushedAfterReset ==
    /\ cpc = "done"
    /\ Len(enc_trace) >= 2
    /\ enc_trace[Len(enc_trace)].resets = 1
    /\ enc_trace[Len(enc_trace) - 1].resets = 0
    /\ Len(enc_trace[Len(enc_trace)].word) = 1

====
